---- MODULE Spec2Model ----
(***************************************************************************)
(* Model of the documentation tools of CiderPress2 (ndocs):                *)
(*   - ndocs/prevnext.py: the prev/next navigation stitcher (Spec,         *)
(*     SpecFocus);                                                         *)
(*   - ndocs/formatdoc/convert.py: the Markdown link fixer (SpecResolve,   *)
(*     SpecLinks).                                                         *)
(* An HTML file is a sequence of lexical tokens: the opening tag of the    *)
(* prevnext section, a closing div tag, line feed, carriage return, space, *)
(* any other text, and the literal pieces written by generatePrevNext.     *)
(* Files are assumed decodable in the platform's text encoding.            *)
(***************************************************************************)
EXTENDS Integers, Sequences, FiniteSets, TLC

\* ---------------------------------------------------------------- bounds
MaxFiles == 3
MaxRuns == 2
MaxLen == 4

\* ---------------------------------------------------------------- tokens
OPEN == "<div id=\"prevnext\">"
CLOSE == "</div>"
LF == "\n"
CR == "\r"
SP == " "
TXT == "x"

IsWs(c) == c \in {LF, CR, SP}

Min(S) == CHOOSE x \in S : \A y \in S : x <= y
Max(S) == CHOOSE x \in S : \A y \in S : x >= y

\* text[a:b] of Python, offsets counted from 0
Slice(text, a, b) == SubSeq(text, a + 1, b)

RECURSIVE Concat(_)
Concat(ss) == IF ss = <<>> THEN <<>> ELSE Head(ss) \o Concat(Tail(ss))

\* all sequences over alphabet A of length at most n
RECURSIVE SeqsUpTo(_, _)
SeqsUpTo(A, n) ==
    IF n = 0 THEN {<<>>}
    ELSE LET S == SeqsUpTo(A, n - 1)
         IN  S \cup {Append(s, a) : s \in {t \in S : Len(t) = n - 1}, a \in A}

\* ------------------------------------------------- text-mode file access
\* open(name, "r").read(): universal newlines, "\r\n" and "\r" become "\n"
RECURSIVE ReadText(_)
ReadText(bytes) ==
    IF bytes = <<>> THEN <<>>
    ELSE IF Head(bytes) = CR
         THEN IF Len(bytes) >= 2 /\ bytes[2] = LF
              THEN <<LF>> \o ReadText(Tail(Tail(bytes)))
              ELSE <<LF>> \o ReadText(Tail(bytes))
         ELSE <<Head(bytes)>> \o ReadText(Tail(bytes))

\* outFile.write(text) in text mode: "\n" becomes os.linesep
RECURSIVE WriteText(_, _)
WriteText(text, sep) ==
    IF text = <<>> THEN <<>>
    ELSE (IF Head(text) = LF THEN sep ELSE <<Head(text)>>)
         \o WriteText(Tail(text), sep)

NoFile == [exists |-> FALSE, data |-> <<>>]
File(d) == [exists |-> TRUE, data |-> d]

\* filecmp.cmp(name, outFileName, False): byte-for-byte comparison
FileCmp(f1, f2) == f1.data = f2.data

\* ------------------------------------------------------------- findChunk
\* offset of the first character at or after p that \s does not match
RECURSIVE SkipWs(_, _)
SkipWs(text, p) ==
    IF p < Len(text) /\ IsWs(text[p + 1]) THEN SkipWs(text, p + 1) ELSE p

\* \s*<token> matches at offset p
WsThen(text, p, token) ==
    LET t == SkipWs(text, p) IN t < Len(text) /\ text[t + 1] = token

\* '^' with re.MULTILINE
AtLineStart(text, p) == p = 0 \/ text[p] = LF

\* offsets where group 1 may start for a match that starts at offset m:
\*   ^\s*<div id="prevnext">\s*$.
\* '$' needs a "\n" next (or the end of the text) and '.' then takes it
ChunkStarts(text, m) ==
    IF ~WsThen(text, m, OPEN) THEN {}
    ELSE LET t == SkipWs(text, m) + 1
         IN  { s \in (t + 1)..SkipWs(text, t) : text[s] = LF }

\* offsets where group 1 may end when it starts at s:  (.*?)^\s*<\/div>
ChunkEnds(text, s) ==
    { e \in s..Len(text) : AtLineStart(text, e) /\ WsThen(text, e, CLOSE) }

MatchStarts(text) ==
    { m \in 0..Len(text) :
        /\ AtLineStart(text, m)
        /\ \E s \in ChunkStarts(text, m) : ChunkEnds(text, s) # {} }

\* findChunk.search(fileData): leftmost match; \s* greedy, (.*?) lazy.
\* span is match.span(GROUP_CHUNK)
FindChunk(text) ==
    IF MatchStarts(text) = {} THEN [found |-> FALSE, span |-> <<0, 0>>]
    ELSE LET m == Min(MatchStarts(text))
             s == Max({x \in ChunkStarts(text, m) : ChunkEnds(text, x) # {}})
             e == Min(ChunkEnds(text, s))
         IN  [found |-> TRUE, span |-> <<s, e>>]

\* ------------------------------------------------------ generatePrevNext
AHREF == "<a href=\""
PREVTAIL == "\" class=\"btn-previous\">&laquo; Previous</a>"
NEXTTAIL == "\" class=\"btn-next\">Next &raquo;</a>"

PrevButton(name) == <<SP, SP, SP, SP, AHREF, name, PREVTAIL, LF>>
NextButton(name) == <<SP, SP, SP, SP, AHREF, name, NEXTTAIL, LF>>

\* "index > 1" in place of "index > 0"
GeneratePrevNextOffByOne(list, i) ==
    (IF i > 1 THEN PrevButton(list[i]) ELSE <<>>)
    \o (IF i + 1 < Len(list) THEN NextButton(list[i + 2]) ELSE <<>>)

\* the buttons written without their trailing "\n"
GeneratePrevNextNoNewline(list, i) ==
    (IF i > 0 THEN <<SP, SP, SP, SP, AHREF, list[i], PREVTAIL>> ELSE <<>>)
    \o (IF i + 1 < Len(list)
        THEN <<SP, SP, SP, SP, AHREF, list[i + 2], NEXTTAIL>> ELSE <<>>)

\* text written by generatePrevNext(fileList, index, outFile); i counts
\* from 0 as in the source, list[i + 1] is fileList[i]
GeneratePrevNext(list, i) ==
    (IF i > 0 THEN PrevButton(list[i]) ELSE <<>>)
    \o (IF i + 1 < Len(list) THEN NextButton(list[i + 2]) ELSE <<>>)

\* --------------------------------------------------------------- inputs
\* a topic list names distinct files (TopicOrder has no duplicate entries),
\* none of which is the <name>_NEW of another
TopicNames == <<"a.html", "b.html", "c.html", "d.html", "e.html">>
Names == {TopicNames[i] : i \in 1..MaxFiles}
TopicLists == {SubSeq(TopicNames, 1, n) : n \in 0..MaxFiles}
Listed(list) == {list[i] : i \in 1..Len(list)}

LineSeps == {<<LF>>, <<CR, LF>>}

MarkerDoc == <<OPEN, LF, CLOSE, LF>>

SampleDocs ==
    { <<>>,
      <<TXT, LF>>,
      MarkerDoc,
      <<OPEN, CR, LF, TXT, CR, LF, CLOSE, CR, LF>>,
      <<SP, OPEN, LF, LF, TXT, LF, LF, CLOSE, LF, OPEN, LF, CLOSE>> }

DiskAlphabet == {OPEN, CLOSE, LF, CR, SP, TXT}
AllDocs == SeqsUpTo(DiskAlphabet, MaxLen)

\* ---------------------------------------------------------------- state
VARIABLES
    fileList,   \* lines of topic-list.txt
    linesep,    \* os.linesep of the platform
    disk,       \* name -> the file <name>
    newf,       \* name -> the file <name>_NEW
    index,      \* loop index of main, from 0
    pc,         \* "edit": before editFile; "cmp": before filecmp; "exit"
    exitCode,   \* argument of sys.exit, -1 while running
    replSpan,   \* match.span(GROUP_CHUNK) of the last editFile, or <<-1,-1>>
    log,        \* lines printed by the current run
    run,        \* number of the current invocation
    before,     \* disk as it was when the current run started
    inpath,     \* fixlinks: path of the Markdown document
    srcFile,    \* fixlinks: content of the document in the source tree
    fileData,   \* fixlinks: the decoded text
    startPos,   \* fixlinks: where the next search starts
    outFile,    \* fixlinks: the strings written to outpath so far
    link,       \* fixlinks: target of the last match
    outstr      \* fixlinks: what was written in its place

stitchVars == <<fileList, disk, newf, index, exitCode, replSpan, log, run, before>>
linkVars == <<inpath, srcFile, fileData, startPos, outFile, link, outstr>>
vars == <<linesep, pc, stitchVars, linkVars>>

\* prevnext.py does not run fixlinks
NoLinks ==
    /\ inpath = <<>> /\ srcFile = <<>> /\ fileData = <<>> /\ startPos = 0
    /\ outFile = <<>> /\ link = <<>> /\ outstr = <<>>

Msg(i, m) == [idx |-> i, msg |-> m]

Start(list, sep, d, n) ==
    /\ fileList = list
    /\ linesep = sep
    /\ disk = d
    /\ newf = n
    /\ index = 0
    /\ pc = IF Len(list) = 0 THEN "exit" ELSE "edit"
    /\ exitCode = IF Len(list) = 0 THEN 0 ELSE -1
    /\ replSpan = <<-1, -1>>
    /\ log = <<>>
    /\ run = 1
    /\ before = d
    /\ NoLinks

\* every listed file is missing or holds a sample document; one stale
\* <name>_NEW may be left over from an interrupted run
Init ==
    \E list \in TopicLists, sep \in LineSeps :
    \E contents \in [Listed(list) -> {NoFile} \cup {File(d) : d \in SampleDocs}],
       stale \in {{}} \cup {{n} : n \in Listed(list)} :
        Start(list, sep,
              [n \in Names |-> IF n \in Listed(list) THEN contents[n] ELSE NoFile],
              [n \in Names |-> IF n \in stale THEN File(<<>>) ELSE NoFile])

\* one file of the list holds an arbitrary document, the others a marker;
\* the list is the shortest or the longest one
InitFocus ==
    \E list \in {SubSeq(TopicNames, 1, n) : n \in {1, MaxFiles}}, sep \in LineSeps :
    \E k \in 1..Len(list), f \in {NoFile} \cup {File(d) : d \in AllDocs} :
        Start(list, sep,
              [n \in Names |-> IF n = list[k] THEN f
                               ELSE IF n \in Listed(list) THEN File(MarkerDoc)
                               ELSE NoFile],
              [n \in Names |-> NoFile])

name == fileList[index + 1]

\* the error is swallowed and the loop goes on
EditFileErrorContinue ==
    /\ pc = "edit"
    /\ ~disk[name].exists \/ newf[name].exists
    /\ log' = Append(log, Msg(index, "ERROR"))
    /\ IF index + 1 < Len(fileList)
       THEN index' = index + 1 /\ pc' = "edit" /\ exitCode' = exitCode
       ELSE index' = index /\ pc' = "exit" /\ exitCode' = 1
    /\ UNCHANGED <<fileList, linesep, disk, newf, replSpan, run, before>>
    /\ UNCHANGED linkVars

\* editFile raises LocalError: the input cannot be opened, or the
\* exclusive creation of <name>_NEW fails; main prints and exits 1
EditFileError ==
    /\ pc = "edit"
    /\ ~disk[name].exists \/ newf[name].exists
    /\ pc' = "exit"
    /\ exitCode' = 1
    /\ log' = Append(log, Msg(index, "ERROR"))
    /\ UNCHANGED <<fileList, linesep, disk, newf, index, replSpan, run, before>>
    /\ UNCHANGED linkVars

\* editFile, no match: <name>_NEW has been created and stays empty
EditFileNoSection ==
    /\ pc = "edit"
    /\ disk[name].exists /\ ~newf[name].exists
    /\ ~FindChunk(ReadText(disk[name].data)).found
    /\ newf' = [newf EXCEPT ![name] = File(<<>>)]
    /\ replSpan' = <<-1, -1>>
    /\ log' = Append(log, Msg(index, "No prevnext section found"))
    /\ pc' = "cmp"
    /\ UNCHANGED <<fileList, linesep, disk, index, exitCode, run, before>>
    /\ UNCHANGED linkVars

\* editFile, match: head, generated buttons and tail go to <name>_NEW
EditFileMatched ==
    /\ pc = "edit"
    /\ disk[name].exists /\ ~newf[name].exists
    /\ LET htmlData == ReadText(disk[name].data)
           match == FindChunk(htmlData)
       IN  /\ match.found
           /\ replSpan' = match.span
           /\ newf' = [newf EXCEPT ![name] = File(WriteText(
                  Slice(htmlData, 0, match.span[1])
                  \o GeneratePrevNext(fileList, index)
                  \o Slice(htmlData, match.span[2], Len(htmlData)),
                  linesep))]
    /\ log' = Append(log, Msg(index, "Matched"))
    /\ pc' = "cmp"
    /\ UNCHANGED <<fileList, linesep, disk, index, exitCode, run, before>>
    /\ UNCHANGED linkVars

\* end of a loop iteration of main
Advance ==
    IF index + 1 < Len(fileList)
    THEN index' = index + 1 /\ pc' = "edit" /\ exitCode' = exitCode
    ELSE index' = index /\ pc' = "exit" /\ exitCode' = 0

\* filecmp.cmp says equal: os.remove(outFileName)
CompareRemove ==
    /\ pc = "cmp"
    /\ FileCmp(disk[name], newf[name])
    /\ newf' = [newf EXCEPT ![name] = NoFile]
    /\ log' = Append(log, Msg(index, "No changes, removing new"))
    /\ Advance
    /\ UNCHANGED <<fileList, linesep, disk, replSpan, run, before>>
    /\ UNCHANGED linkVars

\* filecmp.cmp says different: os.replace(outFileName, name)
CompareReplace ==
    /\ pc = "cmp"
    /\ ~FileCmp(disk[name], newf[name])
    /\ disk' = [disk EXCEPT ![name] = newf[name]]
    /\ newf' = [newf EXCEPT ![name] = NoFile]
    /\ log' = Append(log, Msg(index, "Changed, keeping new"))
    /\ Advance
    /\ UNCHANGED <<fileList, linesep, replSpan, run, before>>
    /\ UNCHANGED linkVars

\* the tool is invoked again on the same directory
Rerun ==
    /\ pc = "exit"
    /\ run < MaxRuns
    /\ run' = run + 1
    /\ index' = 0
    /\ pc' = IF Len(fileList) = 0 THEN "exit" ELSE "edit"
    /\ exitCode' = IF Len(fileList) = 0 THEN 0 ELSE -1
    /\ replSpan' = <<-1, -1>>
    /\ log' = <<>>
    /\ before' = disk
    /\ UNCHANGED <<fileList, linesep, disk, newf>>
    /\ UNCHANGED linkVars

Next ==
    \/ EditFileError
    \/ EditFileNoSection
    \/ EditFileMatched
    \/ CompareRemove
    \/ CompareReplace
    \/ Rerun

Spec == Init /\ [][Next]_vars
SpecFocus == InitFocus /\ [][Next]_vars

\* ------------------------------------------------- stitcher: properties
FileAt(i) == fileList[i + 1]

\* loop iteration i of the current run has finished
IterationDone(i) == index > i \/ (pc = "exit" /\ exitCode = 0)

Logged(i, m) == \E k \in DOMAIN log : log[k] = Msg(i, m)

\* C1: a listed file without a prevnext section keeps its content, the
\* run goes on to the next file, and a run in which editFile raises no
\* error ends with exit code 0.
MissingMarkerHarmless ==
    /\ \A i \in 0..(Len(fileList) - 1) :
          Logged(i, "No prevnext section found") /\ IterationDone(i)
              => /\ disk[FileAt(i)] = before[FileAt(i)]
                 /\ (pc = "exit" /\ i + 1 < Len(fileList) => index > i)
    /\ (pc = "exit" /\ ~\E i \in 0..(Len(fileList) - 1) : Logged(i, "ERROR"))
          => exitCode = 0

\* old[:a] runs through the line of an opening tag before which no
\* prevnext section is complete, old[b:] starts at the line of a closing tag
IsMarkerCut(old, a, b) ==
    /\ \E t \in 0..(a - 2) :
          /\ old[t + 1] = OPEN
          /\ \A j \in (t + 2)..a : IsWs(old[j])
          /\ old[a] \in {LF, CR}
          /\ ~FindChunk(ReadText(Slice(old, 0, t))).found
    /\ WsThen(old, b, CLOSE)

\* C2: when a listed file has a prevnext section, stitching changes only
\* the interior of the first section: everything through the opening line
\* and everything from the closing line on is byte-identical, and the new
\* interior is the generated buttons.
OnlyInteriorChanges ==
    \A i \in 0..(Len(fileList) - 1) :
        Logged(i, "Matched") /\ IterationDone(i) =>
            LET old == before[FileAt(i)].data
                new == disk[FileAt(i)].data
            IN  \E a \in 0..Len(old) : \E b \in a..Len(old) :
                    /\ IsMarkerCut(old, a, b)
                    /\ new = Slice(old, 0, a)
                             \o WriteText(GeneratePrevNext(fileList, i), linesep)
                             \o Slice(old, b, Len(old))

\* the (href, rest) pairs of the buttons found in a text
RECURSIVE Buttons(_)
Buttons(text) ==
    IF Len(text) < 3 THEN <<>>
    ELSE IF Head(text) = AHREF
         THEN <<(<<text[2], text[3]>>)>> \o Buttons(Tail(Tail(Tail(text))))
         ELSE Buttons(Tail(text))

\* the text editFile put between the head and the tail of file i
WrittenInterior ==
    LET old == ReadText(disk[name].data)
        new == ReadText(newf[name].data)
    IN  Slice(new, replSpan[1], Len(new) - (Len(old) - replSpan[2]))

\* C3: at position i of a list of n files the generated buttons are a
\* "previous" button to fileList[i-1] iff i > 0 and a "next" button to
\* fileList[i+1] iff i < n-1, previous first, and nothing else.
PrevNextButtons ==
    (pc = "cmp" /\ replSpan # <<-1, -1>>) =>
        LET n == Len(fileList)
            i == index
        IN  /\ Buttons(WrittenInterior) =
                  (IF i > 0 THEN <<(<<FileAt(i - 1), PREVTAIL>>)>> ELSE <<>>)
                  \o (IF i < n - 1 THEN <<(<<FileAt(i + 1), NEXTTAIL>>)>> ELSE <<>>)
            /\ Len(WrittenInterior) = 8 * Len(Buttons(WrittenInterior))

PrevNextButtonsWitness ==
    /\ pc = "cmp" /\ replSpan # <<-1, -1>>
    /\ fileList = <<"a.html", "b.html", "c.html">>
    /\ index = 1
    /\ Buttons(WrittenInterior) = <<(<<"a.html", PREVTAIL>>), (<<"c.html", NEXTTAIL>>)>>

OpenFailureStopsRun ==
    /\ (pc = "exit" /\ exitCode = 1) =>
          /\ log # <<>> /\ log[Len(log)] = Msg(index, "ERROR")
          /\ \A j \in index..(Len(fileList) - 1) : disk[FileAt(j)] = before[FileAt(j)]
          /\ \A k \in DOMAIN log : log[k].idx <= index
          /\ \A j \in 0..(index - 1) :
                Logged(j, "Changed, keeping new") => disk[FileAt(j)] # before[FileAt(j)]
    /\ \A i \in 0..(Len(fileList) - 1) :
          (pc = "exit" /\ ~before[FileAt(i)].exists) => exitCode = 1 /\ index <= i
    /\ \A i \in 0..(Len(fileList) - 1) :
          (pc = "cmp" \/ exitCode = 0) /\ index >= i => before[FileAt(i)].exists

OpenFailureStopsRunWitness ==
    /\ pc = "exit" /\ exitCode = 1
    /\ index = 1 /\ Len(fileList) = 3
    /\ ~disk[name].exists
    /\ Logged(0, "Changed, keeping new")
    /\ disk["c.html"].exists

\* ------------------------------------------------ formatdoc/convert.py
\* A Markdown document and a path are sequences of characters; a directory
\* name, a file name and SOURCE_ROOT each count as one element.
MaxUp == 3
MaxBody == 2
MaxDepth == 2
MaxSegs == 3

BOM == "<U+FEFF>"
SOURCE_ROOT == <<"https://github.com/fadden/CiderPress2/blob/main/">>
NotesSuffix == <<"-", "n", "o", "t", "e", "s", ".", "m", "d">>
HTTP == <<"h", "t", "t", "p">>
HTML == <<"h", "t", "m", "l">>
UP == <<".", ".", "/">>

\* text[a:b] of Python for 0 <= a: the bounds are clamped
PySlice(text, a, b) ==
    SubSeq(text, a + 1, IF b > Len(text) THEN Len(text) ELSE b)

\* open(treePath, "r", encoding="utf-8-sig").read(): one leading BOM is
\* dropped, then the newlines are translated
ReadUtf8Sig(bytes) ==
    ReadText(IF bytes # <<>> /\ Head(bytes) = BOM THEN Tail(bytes) ELSE bytes)

\* p.rfind("/") + 1
AfterLastSlash(p) == Max({0} \cup {i \in 1..Len(p) : p[i] = "/"})

RECURSIVE RStripSlash(_)
RStripSlash(p) ==
    IF p # <<>> /\ p[Len(p)] = "/" THEN RStripSlash(SubSeq(p, 1, Len(p) - 1))
    ELSE p

\* the whole path in place of its last component
BasenameWhole(p) == p

\* os.path.basename
Basename(p) == PySlice(p, AfterLastSlash(p), Len(p))

\* os.path.dirname
Dirname(p) ==
    LET head == PySlice(p, 0, AfterLastSlash(p))
    IN  IF head # <<>> /\ \E i \in 1..Len(head) : head[i] # "/"
        THEN RStripSlash(head) ELSE head

\* the loop that strips each leading "../" of modLink and takes the
\* dirname of basePath; gives <<modLink, basePath>> at its end
RECURSIVE StripParents(_, _)
StripParents(modLink, basePath) ==
    IF PySlice(modLink, 0, 3) = UP
    THEN StripParents(PySlice(modLink, 3, Len(modLink)), Dirname(basePath))
    ELSE <<modLink, basePath>>

\* the relative branch without its test "if not basePath"
FixLinkAlwaysJoin(lnk, path) ==
    IF Len(lnk) > 9 /\ PySlice(lnk, Len(lnk) - 9, Len(lnk)) = NotesSuffix
    THEN LET base == Basename(lnk)
         IN  PySlice(base, 0, Len(base) - 2) \o HTML
    ELSE IF lnk[1] = "#" \/ PySlice(lnk, 0, 4) = HTTP
    THEN lnk
    ELSE LET r == StripParents(lnk, Dirname(path))
         IN  SOURCE_ROOT \o r[2] \o <<"/">> \o r[1]

\* "fix the link": outstr for a matched target (non-empty by the pattern)
FixLink(lnk, path) ==
    IF Len(lnk) > 9 /\ PySlice(lnk, Len(lnk) - 9, Len(lnk)) = NotesSuffix
    THEN LET base == Basename(lnk)
         IN  PySlice(base, 0, Len(base) - 2) \o HTML
    ELSE IF lnk[1] = "#" \/ PySlice(lnk, 0, 4) = HTTP
    THEN lnk
    ELSE LET r == StripParents(lnk, Dirname(path))
         IN  SOURCE_ROOT
             \o (IF r[2] = <<>> THEN r[1] ELSE r[2] \o <<"/">> \o r[1])

\* offset of the first ")" at or after g, Len(text) when there is none
RECURSIVE CloseParen(_, _)
CloseParen(text, g) ==
    IF g < Len(text) /\ text[g + 1] # ")" THEN CloseParen(text, g + 1) ELSE g

\* \]\(([^\)]+)\) matches at offset j
TargetAt(text, j) ==
    /\ j + 2 <= Len(text)
    /\ text[j + 1] = "]" /\ text[j + 2] = "("
    /\ LET g == CloseParen(text, j + 2) IN g > j + 2 /\ g < Len(text)

\* offsets where ".*" may end for a match that starts at offset m
LinkEnds(text, m) ==
    { j \in (m + 1)..Len(text) :
        /\ \A i \in (m + 2)..j : text[i] # LF
        /\ TargetAt(text, j) }

LinkMatch(found, a, b) == [found |-> found, linkSpan |-> <<a, b>>, end |-> b + 1]

\* findChunk.search(fileData, startPos) of convert.py: leftmost match,
\* ".*" greedy; linkSpan is match.span(GROUP_LINK), end is match.end(GROUP_ALL)
FindLink(text, pos) ==
    LET starts == { m \in pos..(Len(text) - 1) :
                      text[m + 1] = "[" /\ LinkEnds(text, m) # {} }
    IN  IF starts = {} THEN LinkMatch(FALSE, 0, 0)
        ELSE LET j == Max(LinkEnds(text, Min(starts)))
             IN  LinkMatch(TRUE, j + 2, CloseParen(text, j + 2))

\* ------------------------------------------------------------ inputs
RECURSIVE Ups(_)
Ups(k) == IF k = 0 THEN <<>> ELSE UP \o Ups(k - 1)

TargetAlphabet == {".", "/", "#", "x"}

ExampleTargets ==
    { <<"F", "o", "o">> \o NotesSuffix,
      Ups(2) \o <<"C", "o", "m", "m", "o", "n", "/", "x", ".", "c">> }

Targets ==
    ({ pre \o Ups(k) \o b \o suf :
         pre \in {<<>>, HTTP}, k \in 0..MaxUp,
         b \in SeqsUpTo(TargetAlphabet, MaxBody), suf \in {<<>>, NotesSuffix} }
     \cup ExampleTargets) \ {<<>>}

DirNames == <<"DiskArc", "Arc", "Sub", "Deep", "More">>

RECURSIVE DirOf(_)
DirOf(d) ==
    IF d = 0 THEN <<>>
    ELSE IF d = 1 THEN <<DirNames[1]>>
    ELSE DirOf(d - 1) \o <<"/", DirNames[d]>>

\* a document d directories deep, as "DiskArc/Arc/Zip-notes.md"
DocPath(d) ==
    (IF d = 0 THEN <<>> ELSE DirOf(d) \o <<"/">>) \o <<"Zip-notes.md">>

LinkDoc(t) == <<"[", "a", "]", "(">> \o t \o <<")">>

MdSegments ==
    { <<"[">>, <<"]">>, <<"(">>, <<")">>, <<LF>>, <<CR>>, <<BOM>>, <<"a">>,
      LinkDoc(<<"x">>), LinkDoc(<<"#">>) }

RECURSIVE SegDocs(_)
SegDocs(n) ==
    IF n = 0 THEN {<<>>}
    ELSE SegDocs(n - 1) \cup {d \o g : d \in SegDocs(n - 1), g \in MdSegments}

MdDocs == SegDocs(MaxSegs) \cup {LinkDoc(t) : t \in Targets}

\* ------------------------------------------------------------ fixlinks
\* one outFile.write: the text, the span of fileData it stands for, and
\* whether it is a rewritten target
Piece(text, a, b, isLink) == [text |-> text, src |-> <<a, b>>, isLink |-> isLink]

\* convert.py does not run the stitcher
NoStitch ==
    /\ fileList = <<>>
    /\ disk = [n \in Names |-> NoFile]
    /\ newf = [n \in Names |-> NoFile]
    /\ index = 0 /\ exitCode = -1 /\ replSpan = <<-1, -1>>
    /\ log = <<>> /\ run = 1
    /\ before = [n \in Names |-> NoFile]

InitLinks ==
    /\ NoStitch
    /\ linesep \in LineSeps
    /\ inpath \in {DocPath(d) : d \in 0..MaxDepth}
    /\ srcFile \in MdDocs
    /\ fileData = ReadUtf8Sig(srcFile)
    /\ startPos = 0
    /\ outFile = <<>>
    /\ link = <<>>
    /\ outstr = <<>>
    /\ pc = "scan"

\* one turn of the loop with a match
FixStep ==
    /\ pc = "scan"
    /\ LET match == FindLink(fileData, startPos)
           a == match.linkSpan[1]
           b == match.linkSpan[2]
           lnk == Slice(fileData, a, b)
       IN  /\ match.found
           /\ link' = lnk
           /\ outstr' = FixLink(lnk, inpath)
           /\ outFile' = outFile \o
                  << Piece(Slice(fileData, startPos, a), startPos, a, FALSE),
                     Piece(FixLink(lnk, inpath), a, b, TRUE),
                     Piece(Slice(fileData, b, match.end), b, match.end, FALSE) >>
           /\ startPos' = match.end
    /\ UNCHANGED <<linesep, pc, stitchVars, inpath, srcFile, fileData>>

\* no further match: "copy remaining bytes" and close the file
FixDone ==
    /\ pc = "scan"
    /\ ~FindLink(fileData, startPos).found
    /\ outFile' = Append(outFile,
           Piece(Slice(fileData, startPos, Len(fileData)),
                 startPos, Len(fileData), FALSE))
    /\ pc' = "done"
    /\ UNCHANGED <<linesep, stitchVars, inpath, srcFile, fileData, startPos,
                   link, outstr>>

NextLinks == FixStep \/ FixDone

SpecLinks == InitLinks /\ [][NextLinks]_vars

\* ------------------------------------------------ fixlinks: properties
EndsWith(t, suffix) ==
    Len(t) >= Len(suffix) /\ SubSeq(t, Len(t) - Len(suffix) + 1, Len(t)) = suffix

HasSlash(t) == \E i \in 1..Len(t) : t[i] = "/"

\* a target has been rewritten
Fixed == pc \in {"scan", "done"} /\ link # <<>>

\* C6: a target that ends with "-notes.md" is rewritten to its base name
\* without the notes suffix followed by ".html", with no directory.
NotesLinkDropsSuffix ==
    (Fixed /\ EndsWith(link, NotesSuffix)) =>
        /\ ~HasSlash(outstr)
        /\ \E c \in 0..(Len(link) - 9) :
              /\ c = 0 \/ link[c] = "/"
              /\ ~HasSlash(SubSeq(link, c + 1, Len(link)))
              /\ outstr = SubSeq(link, c + 1, Len(link) - 9) \o <<".">> \o HTML

\* C6 as amended: a target that ends with "-notes.md" and is longer than
\* that suffix is rewritten to its base name with the final "md" replaced
\* by "html" (the "-notes" part stays), with no directory.
NotesLinkToHtml ==
    (Fixed /\ EndsWith(link, NotesSuffix) /\ Len(link) > Len(NotesSuffix)) =>
        /\ ~HasSlash(outstr)
        /\ \E c \in 0..(Len(link) - 9) :
              /\ c = 0 \/ link[c] = "/"
              /\ ~HasSlash(SubSeq(link, c + 1, Len(link)))
              /\ outstr = SubSeq(link, c + 1, Len(link) - 3) \o <<".">> \o HTML

NotesLinkToHtmlWitness ==
    /\ Fixed
    /\ inpath = <<"DiskArc", "/", "Arc", "/", "Zip-notes.md">>
    /\ link = <<"F", "o", "o">> \o NotesSuffix
    /\ outstr = <<"F", "o", "o", "-", "n", "o", "t", "e", "s", ".", "h", "t", "m", "l">>

RECURSIVE LeadingUps(_)
LeadingUps(t) ==
    IF Len(t) >= 3 /\ SubSeq(t, 1, 3) = UP
    THEN 1 + LeadingUps(SubSeq(t, 4, Len(t))) ELSE 0

IsOpaque(t) == t[1] = "#" \/ (Len(t) >= 4 /\ SubSeq(t, 1, 4) = HTTP)

\* C7: a relative target with k leading "../", in a document d directories
\* deep, becomes SOURCE_ROOT, the document's directory without its last k
\* components, "/", and the target without its k leading "../"; the
\* directory and its "/" are left out once every component is consumed.
RelativeLinkResolved ==
    (Fixed /\ ~EndsWith(link, NotesSuffix) /\ ~IsOpaque(link)) =>
        \E d \in 0..MaxDepth :
            /\ inpath = DocPath(d)
            /\ LET k == LeadingUps(link)
                   rest == SubSeq(link, 3 * k + 1, Len(link))
               IN  outstr = SOURCE_ROOT
                            \o (IF k >= d THEN <<>> ELSE DirOf(d - k) \o <<"/">>)
                            \o rest

RelativeLinkResolvedWitness ==
    /\ Fixed
    /\ inpath = <<"DiskArc", "/", "Arc", "/", "Zip-notes.md">>
    /\ link = Ups(2) \o <<"C", "o", "m", "m", "o", "n", "/", "x", ".", "c">>
    /\ outstr = SOURCE_ROOT \o <<"C", "o", "m", "m", "o", "n", "/", "x", ".", "c">>

\* C8: a target that begins with "#" is written back unchanged, whatever
\* follows the "#".
AnchorLinkUnchanged ==
    (Fixed /\ link[1] = "#") => outstr = link

\* bytes of the file at outpath
OutBytes == Concat([k \in DOMAIN outFile |-> WriteText(outFile[k].text, linesep)])

\* number of characters of the file that the first p decoded ones stand for
RECURSIVE RawLen(_, _)
RawLen(bytes, p) ==
    IF p = 0 THEN 0
    ELSE IF Head(bytes) = CR /\ Len(bytes) >= 2 /\ bytes[2] = LF
         THEN 2 + RawLen(Tail(Tail(bytes)), p - 1)
         ELSE 1 + RawLen(Tail(bytes), p - 1)

\* offset in srcFile of offset p of fileData
RawOffset(p) ==
    IF srcFile # <<>> /\ Head(srcFile) = BOM
    THEN 1 + RawLen(Tail(srcFile), p) ELSE RawLen(srcFile, p)

NoBom(t) == SelectSeq(t, LAMBDA c : c # BOM)

Copies == SelectSeq(outFile, LAMBDA piece : ~piece.isLink)

\* C9: the output has no byte-order marker, and the characters of the
\* input outside the matched targets appear in it unchanged, in order.
CopiesOutsideLinks ==
    pc = "done" =>
        /\ \A i \in DOMAIN OutBytes : OutBytes[i] # BOM
        /\ Concat([k \in DOMAIN Copies |-> WriteText(Copies[k].text, linesep)])
           = NoBom(Concat([k \in DOMAIN Copies |->
                 Slice(srcFile, RawOffset(Copies[k].src[1]),
                                RawOffset(Copies[k].src[2]))]))

\* a construct "[display](target)" starts at offset m and its display text,
\* free of brackets and newlines, ends at offset j
ConstructAt(text, m, j) ==
    /\ text[m + 1] = "["
    /\ \A i \in (m + 2)..j : text[i] \notin {"[", "]", LF}
    /\ TargetAt(text, j)

\* target spans of the constructs met from offset pos, left to right,
\* each search starting where the previous construct ends
RECURSIVE Constructs(_, _)
Constructs(text, pos) ==
    LET starts == { m \in pos..(Len(text) - 1) :
                      \E j \in (m + 1)..Len(text) : ConstructAt(text, m, j) }
    IN  IF starts = {} THEN <<>>
        ELSE LET m == Min(starts)
                 j == CHOOSE x \in (m + 1)..Len(text) : ConstructAt(text, m, x)
                 g == CloseParen(text, j + 2)
             IN  <<(<<j + 2, g>>)>> \o Constructs(text, g + 1)

\* C10: every link construct of the document, also when several stand on
\* one line, has its target replaced by what the resolver gives for it.
EveryLinkResolved ==
    pc = "done" =>
        LET cs == Constructs(fileData, 0)
        IN  \A n \in DOMAIN cs :
                LET resolved == FixLink(Slice(fileData, cs[n][1], cs[n][2]), inpath)
                IN  \E k \in DOMAIN outFile :
                        \/ /\ outFile[k].isLink
                           /\ outFile[k].src = cs[n]
                           /\ outFile[k].text = resolved
                        \/ /\ ~outFile[k].isLink
                           /\ outFile[k].src[1] <= cs[n][1]
                           /\ cs[n][2] <= outFile[k].src[2]
                           /\ resolved = Slice(fileData, cs[n][1], cs[n][2])

====
